---- MODULE Spec2Model ----
(***************************************************************************)
(* Model of the scenesense Flask application (src/app.py): the process-    *)
(* wide script cache, the /ask handler and the script scraper, run by      *)
(* concurrent request threads.  Strings are sequences of one-character     *)
(* strings; a script text is a sequence of runs (a word of n characters or *)
(* n whitespace characters), so that lengths around the 500-character      *)
(* threshold can be represented.                                           *)
(*                                                                         *)
(* Spec is the application serving /ask requests.  The other               *)
(* specifications exercise one component each, with the variables of the   *)
(* other components held at rest: SpecHistory the conversation history     *)
(* store, SpecSuggest the /suggest_movies handler, SpecSlug the derivation  *)
(* of the script URL from a title.  SpecBarTitles is the application       *)
(* serving, one at a time, requests whose titles hold a '|'.  SpecScraper  *)
(* is the title-list script (src/get_all_movie_scripts.py) run as a        *)
(* program.                                                                *)
(***************************************************************************)
EXTENDS Integers, Sequences, FiniteSets, TLC

(***************************************************************************)
(* Bounds of the model.                                                    *)
(***************************************************************************)
NumThreads == 2

\* Number of entries appended to the conversation histories.
MaxAppends == 12

\* Length of the movie list.
MaxMovies == 6

\* Length of the titles whose URL is derived.
MaxTitleLen == 4

\* Number of <p> elements of the all-scripts page.
MaxParagraphs == 3

Threads == 1..NumThreads

(***************************************************************************)
(* Python values.                                                          *)
(***************************************************************************)
None == [type |-> "NoneType"]

List(items) == [type |-> "list", items |-> items]

\* Python truth value of None or of a list: bool(x).
Truthy(x) == x.type = "list" /\ x.items # << >>

(***************************************************************************)
(* str methods used by the handlers.                                       *)
(***************************************************************************)
IsSpace(c) == c = " "

RECURSIVE lstrip(_)
lstrip(s) == IF s # << >> /\ IsSpace(Head(s)) THEN lstrip(Tail(s)) ELSE s

RECURSIVE rstrip(_)
rstrip(s) ==
  IF s # << >> /\ IsSpace(s[Len(s)]) THEN rstrip(SubSeq(s, 1, Len(s) - 1)) ELSE s

\* str.strip()
strip(s) == rstrip(lstrip(s))

LowerChar(c) ==
  CASE c = "T" -> "t"
    [] c = "M" -> "m"
    [] c = "D" -> "d"
    [] OTHER -> c

\* str.lower()
lower(s) == [i \in DOMAIN s |-> LowerChar(s[i])]

RECURSIVE SplitFirst(_, _)
\* s.split(sep)[0]: the part of s before the first occurrence of sep.
SplitFirst(s, sep) ==
  IF s = << >> \/ Head(s) = sep THEN << >>
  ELSE <<Head(s)>> \o SplitFirst(Tail(s), sep)

RECURSIVE replace(_, _, _)
\* s.replace(old, new) for a one-character old; new is a string.
replace(s, old, new) ==
  IF s = << >> THEN << >>
  ELSE (IF Head(s) = old THEN new ELSE <<Head(s)>>) \o replace(Tail(s), old, new)

RECURSIVE IsPrefix(_, _)
\* s.startswith(q)
IsPrefix(q, s) ==
  \/ q = << >>
  \/ s # << >> /\ Head(q) = Head(s) /\ IsPrefix(Tail(q), Tail(s))

RECURSIVE IsSubstring(_, _)
\* q in s
IsSubstring(q, s) ==
  \/ IsPrefix(q, s)
  \/ s # << >> /\ IsSubstring(q, Tail(s))

(***************************************************************************)
(* Script texts: sequences of runs.                                        *)
(***************************************************************************)
Word(n) == [k |-> "w", n |-> n]

Space(n) == [k |-> "s", n |-> n]

RECURSIVE TextLen(_)
\* len(text)
TextLen(t) == IF t = << >> THEN 0 ELSE Head(t).n + TextLen(Tail(t))

IsWord(r) == r.k = "w"

RECURSIVE Join(_)
\* " ".join(words)
Join(ws) ==
  IF ws = << >> THEN << >>
  ELSE IF Len(ws) = 1 THEN ws
  ELSE <<Head(ws), Space(1)>> \o Join(Tail(ws))

\* " ".join(script_content.split())
CleanScript(t) == Join(SelectSeq(t, IsWord))

Document(content, source) ==
  [page_content |-> content, metadata |-> [source |-> source]]

(***************************************************************************)
(* Inputs and outcomes of the external collaborators.                      *)
(***************************************************************************)
\* movie_title values of request bodies: " ", "T M", " t m".
RawTitles == { <<" ">>, <<"T", " ", "M">>, <<" ", "t", " ", "m">> }

\* user_question values of request bodies: "", "Q ".
RawQuestions == { << >>, <<"Q", " ">> }

\* request.get_json()
Requests == [movie_title : RawTitles, user_question : RawQuestions]

\* page_content values IMSDbLoader can extract: empty, whitespace only,
\* 499 characters once cleaned, 500 characters once cleaned.
PageContents ==
  { << >>,
    <<Space(3)>>,
    <<Word(250), Space(3), Word(248)>>,
    <<Space(2), Word(300), Space(2), Word(199), Space(1)>> }

\* Outcomes of loader.load(): an exception, no documents, one document.
LoaderOutcomes ==
  { [raised |-> TRUE, error |-> "HTTPError", data |-> << >>],
    [raised |-> FALSE, error |-> "", data |-> << >>] }
  \cup { [raised |-> FALSE, error |-> "", data |-> <<Document(c, "imsdb")>>] :
            c \in PageContents }

\* Outcomes of qa_chain.run(): an exception or a completion text.
LlmOutcomes ==
  { [raised |-> TRUE, error |-> "TimeoutError", value |-> << >>],
    [raised |-> FALSE, error |-> "", value |-> <<"r1">>],
    [raised |-> FALSE, error |-> "", value |-> <<"r2">>] }

\* The exception classes derived from Exception.
Exceptions == { "HTTPError", "TimeoutError", "ValueError" }

\* Minimum length of a usable script.
MinScriptLen == 500

\* The ChatPromptTemplate built in the handler: system instructions and a
\* human message template with the placeholders {context} and {question}.
prompt_template ==
  [type |-> "ChatPromptTemplate", input_variables |-> {"context", "question"}]

\* A str object.
Str(s) == [type |-> "str", chars |-> s]

\* IMSDbLoader(url)
IMSDbLoader(url) == [type |-> "IMSDbLoader", web_path |-> url]

(***************************************************************************)
(* State.                                                                  *)
(***************************************************************************)
VARIABLES
  llm,               \* module global llm: None or the client
  qa_chain,          \* module global qa_chain: None or the chain
  SCRIPT_CACHE,      \* module global: dict from cache keys to None or [Document]
  pc,                \* position of each request thread
  data,              \* request body of the request a thread serves
  script_documents,  \* local of ask_movie_question
  loader,            \* the IMSDbLoader whose load() call is in flight
  loader_calls,      \* number of loader.load() calls made by the request
  loader_out,        \* outcome of loader.load(): local data or exception e
  llm_input,         \* arguments of the qa_chain.run() call made by the request
  llm_calls,         \* number of qa_chain.run() calls made by the request
  answer,            \* local of ask_movie_question
  response           \* what the handler returned

appVars ==
  <<llm, qa_chain, SCRIPT_CACHE, pc, data, script_documents, loader,
    loader_calls, loader_out, llm_input, llm_calls, answer, response>>

\* State of the conversation history store.
VARIABLES
  history,           \* the stored entries of each (session, title key)
  appended           \* every entry appended to it since it was created

historyVars == <<history, appended>>

\* The (session, title key) pairs of the conversation history store.
HistoryKeys == { <<"s1", "t_m">>, <<"s2", "t_m">> }

\* No conversation has taken place.
HistoryInit ==
  /\ history = [k \in HistoryKeys |-> << >>]
  /\ appended = [k \in HistoryKeys |-> << >>]

\* State of the /suggest_movies handler.
VARIABLES
  MOVIE_LIST,        \* module global: the titles read from movies.txt
  query,             \* request.args.get('query', '') of the last request
  suggestions        \* what the handler returned for it

suggestVars == <<MOVIE_LIST, query, suggestions>>

\* movies.txt was not found, no suggestion was asked.
SuggestIdle ==
  /\ MOVIE_LIST = << >>
  /\ query = << >>
  /\ suggestions = << >>

\* State of the derivation of the script URL of one title.
VARIABLES
  raw_title,         \* the movie_title value of a request body
  url                \* the url scrape_script_given_name builds for it

slugVars == <<raw_title, url>>

\* No title is being looked at.
SlugIdle ==
  /\ raw_title = << >>
  /\ url = << >>

\* State of a run of the script get_all_movie_scripts.py.
VARIABLES
  main_pc,           \* position of the script
  page,              \* what requests.get and BeautifulSoup yield
  returned,          \* return value of scrape_imsdb_titles()
  main_locals,       \* titles, directors, movies_and_directors of __main__
  printed,           \* what __main__ printed
  written            \* lines written to movie_titles_and_directors.txt

scraperVars == <<main_pc, page, returned, main_locals, printed, written>>

\* The script is not running.
ScraperIdle ==
  /\ main_pc = "off"
  /\ page = None
  /\ returned = None
  /\ main_locals = None
  /\ printed = << >>
  /\ written = << >>

\* The variables of the components other than the /ask application.
otherVars == <<historyVars, suggestVars, slugVars, scraperVars>>

\* The components other than the /ask application, at rest.
OtherInit == HistoryInit /\ SuggestIdle /\ SlugIdle /\ ScraperIdle

vars == <<appVars, otherVars>>

\* Locals movie_title and user_question of ask_movie_question.
movie_title(d) == strip(d.movie_title)

user_question(d) == strip(d.user_question)

\* Variant of CacheKey that does not lower-case the title.
CacheKey_CaseSensitive(movie_name) == strip(movie_name)

\* formatted_name_for_cache
CacheKey(movie_name) == lower(strip(movie_name))

\* Variant of UrlName that leaves question marks in place.
UrlName_KeepsQuestionMark(movie_name) ==
  LET core_movie_name == strip(SplitFirst(movie_name, "|"))
  IN replace(replace(replace(replace(replace(core_movie_name,
       " ", <<"-">>), "'", << >>), ":", << >>), ",", << >>), "!", << >>)

\* formatted_name_for_url
UrlName(movie_name) ==
  LET core_movie_name == strip(SplitFirst(movie_name, "|"))
  IN replace(replace(replace(replace(replace(replace(core_movie_name,
       " ", <<"-">>), "'", << >>), ":", << >>), ",", << >>), "!", << >>), "?", << >>)

ScriptUrl(movie_name) ==
  <<"https://imsdb.com/scripts/">> \o UrlName(movie_name) \o <<".html">>

(***************************************************************************)
(* Responses of ask_movie_question: jsonify(body), status.                 *)
(***************************************************************************)
Response(status, body) == [status |-> status, json |-> body]

RequiredResponse ==
  Response(400, [error |-> <<"Movie title and question are required.">>])

Echo(d, ans) ==
  [movie_title |-> movie_title(d), user_question |-> user_question(d), answer |-> ans]

UnavailableResponse(d) ==
  Response(500, Echo(d,
    <<"Error: AI question answering service not available. Please check server logs.">>))

NotFoundResponse(d) ==
  Response(200, Echo(d,
    <<"Could not find or scrape the script for '">> \o movie_title(d)
      \o <<"'. Please check the movie title and try again.">>))

PlaceholderResponse(d) ==
  Response(200, Echo(d,
    <<"The script found for '">> \o movie_title(d)
      \o <<"' appears to be incomplete or a placeholder. Please try a different movie or check the source.">>))

\* Variant of AnswerResponse that echoes the untrimmed title and question.
AnswerResponse_Untrimmed(d, ans) ==
  Response(200, [movie_title |-> d.movie_title, user_question |-> d.user_question,
                 answer |-> ans])

AnswerResponse(d, ans) == Response(200, Echo(d, ans))

QaErrorResponse(d, e) ==
  Response(500, Echo(d,
    <<"An error occurred while trying to answer your question using the script. Error: ", e>>))

(***************************************************************************)
(* Initial state: the module has been imported; llm and qa_chain are set   *)
(* unless their construction raised.                                       *)
(***************************************************************************)
Init ==
  /\ \E init \in { <<None, None>>,
                   <<[type |-> "ChatGoogleGenerativeAI"], None>>,
                   <<[type |-> "ChatGoogleGenerativeAI"], [type |-> "Chain"]>> } :
       llm = init[1] /\ qa_chain = init[2]
  /\ SCRIPT_CACHE = << >>
  /\ pc = [t \in Threads |-> "idle"]
  /\ data = [t \in Threads |-> None]
  /\ script_documents = [t \in Threads |-> None]
  /\ loader = [t \in Threads |-> None]
  /\ loader_calls = [t \in Threads |-> 0]
  /\ loader_out = [t \in Threads |-> None]
  /\ llm_input = [t \in Threads |-> None]
  /\ llm_calls = [t \in Threads |-> 0]
  /\ answer = [t \in Threads |-> None]
  /\ response = [t \in Threads |-> None]
  /\ OtherInit

(***************************************************************************)
(* Conditions of the handlers.                                             *)
(***************************************************************************)
\* Variant of MissingInput that tests the title only.
MissingInput_TitleOnly(d) == movie_title(d) = << >>

\* not movie_title or not user_question
MissingInput(d) == movie_title(d) = << >> \/ user_question(d) = << >>

\* Variant of ServiceUnavailable that tests llm only.
ServiceUnavailable_LlmOnly == llm = None

\* qa_chain is None or llm is None
ServiceUnavailable == qa_chain = None \/ llm = None

\* formatted_name_for_cache in SCRIPT_CACHE
CacheHit(key) == key \in DOMAIN SCRIPT_CACHE

\* Variant of ScrapeFailed that does not test the content.
ScrapeFailed_NoContentCheck(out) == out.data = << >>

\* not data or not data[0].page_content
ScrapeFailed(out) == out.data = << >> \/ out.data[1].page_content = << >>

\* Variant of ScrapeCatches for a handler of ValueError only.
ScrapeCatches_ValueErrorOnly(e) == e = "ValueError"

\* except Exception as e, in scrape_script_given_name
ScrapeCatches(e) == e \in Exceptions

\* Variant of QaCatches for a handler of ValueError only.
QaCatches_ValueErrorOnly(e) == e = "ValueError"

\* except Exception as e, in ask_movie_question
QaCatches(e) == e \in Exceptions

\* Variant of TooShort with the comparison <=.
TooShort_OffByOne(sd) == TextLen(sd.items[1].page_content) <= MinScriptLen

\* len(script_documents[0].page_content) < 500
TooShort(sd) == TextLen(sd.items[1].page_content) < MinScriptLen

\* Variant of CachePut that does not keep a script that is too short.
CachePut_SkipShort(key, record) ==
  IF Truthy(record) /\ TooShort(record) THEN SCRIPT_CACHE
  ELSE [k \in DOMAIN SCRIPT_CACHE \cup {key} |->
          IF k = key THEN record ELSE SCRIPT_CACHE[k]]

\* SCRIPT_CACHE[key] = record
CachePut(key, record) ==
  [k \in DOMAIN SCRIPT_CACHE \cup {key} |->
     IF k = key THEN record ELSE SCRIPT_CACHE[k]]

\* The record scrape_script_given_name stores and returns for an outcome of
\* the loader.
ScrapedRecord(movie_name, out) ==
  IF out.raised \/ ScrapeFailed(out) THEN None
  ELSE List(<<Document(CleanScript(out.data[1].page_content), movie_name)>>)

\* Arguments of qa_chain.run(input_documents=..., question=...).
QaInput(d, sd) == [input_documents |-> sd, question |-> prompt_template]

\* The conversation turns the process holds for a title: the handlers keep
\* none; SCRIPT_CACHE is the only store a request writes.
ConversationHistory(key) == << >>

(***************************************************************************)
(* ask_movie_question from the return of scrape_script_given_name up to    *)
(* its next blocking call or its return.                                   *)
(***************************************************************************)
AfterScrape(t, d, sd) ==
  /\ script_documents' = [script_documents EXCEPT ![t] = sd]
  /\ IF ~Truthy(sd)
       THEN /\ response' = [response EXCEPT ![t] = NotFoundResponse(d)]
            /\ pc' = [pc EXCEPT ![t] = "done"]
            /\ UNCHANGED <<llm_input, llm_calls>>
     ELSE IF TooShort(sd)
       THEN /\ response' = [response EXCEPT ![t] = PlaceholderResponse(d)]
            /\ pc' = [pc EXCEPT ![t] = "done"]
            /\ UNCHANGED <<llm_input, llm_calls>>
     ELSE /\ llm_input' = [llm_input EXCEPT ![t] = QaInput(d, sd)]
          /\ llm_calls' = [llm_calls EXCEPT ![t] = @ + 1]
          /\ pc' = [pc EXCEPT ![t] = "qa"]
          /\ UNCHANGED response

(***************************************************************************)
(* A request arrives at /ask: the handler runs up to its first blocking    *)
(* call (loader.load() or qa_chain.run()) or to its return.                *)
(***************************************************************************)
Ask(t, d) ==
  /\ pc[t] = "idle"
  /\ data' = [data EXCEPT ![t] = d]
  /\ UNCHANGED <<llm, qa_chain, SCRIPT_CACHE, loader_out, answer>>
  /\ UNCHANGED otherVars
  /\ IF MissingInput(d)
       THEN /\ response' = [response EXCEPT ![t] = RequiredResponse]
            /\ pc' = [pc EXCEPT ![t] = "done"]
            /\ UNCHANGED <<script_documents, loader, loader_calls,
                           llm_input, llm_calls>>
     ELSE IF ServiceUnavailable
       THEN /\ response' = [response EXCEPT ![t] = UnavailableResponse(d)]
            /\ pc' = [pc EXCEPT ![t] = "done"]
            /\ UNCHANGED <<script_documents, loader, loader_calls,
                           llm_input, llm_calls>>
     ELSE IF CacheHit(CacheKey(movie_title(d)))
       THEN /\ AfterScrape(t, d, SCRIPT_CACHE[CacheKey(movie_title(d))])
            /\ UNCHANGED <<loader, loader_calls>>
     ELSE /\ loader' = [loader EXCEPT ![t] = IMSDbLoader(ScriptUrl(movie_title(d)))]
          /\ loader_calls' = [loader_calls EXCEPT ![t] = @ + 1]
          /\ pc' = [pc EXCEPT ![t] = "load"]
          /\ UNCHANGED <<script_documents, llm_input, llm_calls, response>>

(***************************************************************************)
(* loader.load() returns or raises: scrape_script_given_name stores the    *)
(* record and returns it, and the handler goes on.                         *)
(***************************************************************************)
LoaderReturn(t, out) ==
  /\ pc[t] = "load"
  /\ loader_out' = [loader_out EXCEPT ![t] = out]
  /\ loader' = [loader EXCEPT ![t] = None]
  /\ IF out.raised /\ ~ScrapeCatches(out.error)
       THEN /\ pc' = [pc EXCEPT ![t] = "raised"]
            /\ UNCHANGED <<SCRIPT_CACHE, script_documents, llm_input, llm_calls,
                           response>>
       ELSE LET record == ScrapedRecord(movie_title(data[t]), out)
            IN /\ SCRIPT_CACHE' = CachePut(CacheKey(movie_title(data[t])), record)
               /\ AfterScrape(t, data[t], record)
  /\ UNCHANGED <<llm, qa_chain, data, loader_calls, answer>>
  /\ UNCHANGED otherVars

(***************************************************************************)
(* qa_chain.run() returns or raises: the handler returns its response.     *)
(***************************************************************************)
QaReturn(t, out) ==
  /\ pc[t] = "qa"
  /\ IF out.raised /\ ~QaCatches(out.error)
       THEN /\ pc' = [pc EXCEPT ![t] = "raised"]
            /\ UNCHANGED <<answer, response>>
     ELSE IF out.raised
       THEN /\ response' = [response EXCEPT ![t] = QaErrorResponse(data[t], out.error)]
            /\ pc' = [pc EXCEPT ![t] = "done"]
            /\ UNCHANGED answer
     ELSE /\ answer' = [answer EXCEPT ![t] = Str(out.value)]
          /\ response' = [response EXCEPT ![t] = AnswerResponse(data[t], out.value)]
          /\ pc' = [pc EXCEPT ![t] = "done"]
  /\ UNCHANGED <<llm, qa_chain, SCRIPT_CACHE, data, script_documents, loader,
                 loader_calls, loader_out, llm_input, llm_calls>>
  /\ UNCHANGED otherVars

(***************************************************************************)
(* The response has been sent (the handler's own, or the framework's error *)
(* page for an exception that left the handler); the thread is free for    *)
(* the next request.                                                       *)
(***************************************************************************)
Finish(t) ==
  /\ pc[t] \in {"done", "raised"}
  /\ pc' = [pc EXCEPT ![t] = "idle"]
  /\ data' = [data EXCEPT ![t] = None]
  /\ script_documents' = [script_documents EXCEPT ![t] = None]
  /\ loader_calls' = [loader_calls EXCEPT ![t] = 0]
  /\ loader_out' = [loader_out EXCEPT ![t] = None]
  /\ llm_input' = [llm_input EXCEPT ![t] = None]
  /\ llm_calls' = [llm_calls EXCEPT ![t] = 0]
  /\ answer' = [answer EXCEPT ![t] = None]
  /\ response' = [response EXCEPT ![t] = None]
  /\ UNCHANGED <<llm, qa_chain, SCRIPT_CACHE, loader>>
  /\ UNCHANGED otherVars

Next ==
  \/ \E t \in Threads, d \in Requests : Ask(t, d)
  \/ \E t \in Threads, out \in LoaderOutcomes : LoaderReturn(t, out)
  \/ \E t \in Threads, out \in LlmOutcomes : QaReturn(t, out)
  \/ \E t \in Threads : Finish(t)

Spec == Init /\ [][Next]_vars

\* Request bodies with the titles "|D", " | " and "T|D", in the format
\* "Title | Director" of movies.txt.
BarRequests ==
  [movie_title : { <<"|", "D">>, <<" ", "|", " ">>, <<"T", "|", "D">> },
   user_question : { <<"Q">> }]

NextBarTitles ==
  \/ \E d \in BarRequests : Ask(1, d)
  \/ \E out \in LoaderOutcomes : LoaderReturn(1, out)
  \/ \E out \in LlmOutcomes : QaReturn(1, out)
  \/ Finish(1)

SpecBarTitles == Init /\ [][NextBarTitles]_vars

\* The /ask application at rest: started, no request being served.
AppIdle ==
  /\ llm = None
  /\ qa_chain = None
  /\ SCRIPT_CACHE = << >>
  /\ pc = [t \in Threads |-> "idle"]
  /\ data = [t \in Threads |-> None]
  /\ script_documents = [t \in Threads |-> None]
  /\ loader = [t \in Threads |-> None]
  /\ loader_calls = [t \in Threads |-> 0]
  /\ loader_out = [t \in Threads |-> None]
  /\ llm_input = [t \in Threads |-> None]
  /\ llm_calls = [t \in Threads |-> 0]
  /\ answer = [t \in Threads |-> None]
  /\ response = [t \in Threads |-> None]

(***************************************************************************)
(* Conversation history store: an ordered list of entries per (session,    *)
(* title key), bounded to the most recent HistoryLimit entries.            *)
(***************************************************************************)
\* Bound of a conversation history, in entries.
HistoryLimit == 10

\* The entries a history can hold: questions and answers.
Entries == { <<"Q">>, <<"r1">> }

\* Variant of HistoryAppend that keeps the oldest entries.
HistoryAppend_KeepOldest(h, entry) ==
  LET all == Append(h, entry)
  IN IF Len(all) > HistoryLimit THEN SubSeq(all, 1, HistoryLimit) ELSE all

\* append: add the entry, then keep the last HistoryLimit entries.
HistoryAppend(h, entry) ==
  LET all == Append(h, entry)
  IN IF Len(all) > HistoryLimit
       THEN SubSeq(all, Len(all) - HistoryLimit + 1, Len(all))
       ELSE all

\* Number of entries appended to all histories.
TotalAppended ==
  LET k1 == CHOOSE k \in HistoryKeys : TRUE
      k2 == CHOOSE k \in HistoryKeys : k # k1
  IN Len(appended[k1]) + Len(appended[k2])

\* append(sessionId, titleKey, entry)
AppendEntry(k, entry) ==
  /\ TotalAppended < MaxAppends
  /\ history' = [history EXCEPT ![k] = HistoryAppend(@, entry)]
  /\ appended' = [appended EXCEPT ![k] = Append(@, entry)]
  /\ UNCHANGED <<appVars, suggestVars, slugVars, scraperVars>>

\* clear(sessionId, titleKey)
ClearHistory(k) ==
  /\ history' = [history EXCEPT ![k] = << >>]
  /\ appended' = [appended EXCEPT ![k] = << >>]
  /\ UNCHANGED <<appVars, suggestVars, slugVars, scraperVars>>

InitHistory == AppIdle /\ OtherInit

NextHistory ==
  \/ \E k \in HistoryKeys, entry \in Entries : AppendEntry(k, entry)
  \/ \E k \in HistoryKeys : ClearHistory(k)

SpecHistory == InitHistory /\ [][NextHistory]_vars

(***************************************************************************)
(* Properties.                                                             *)
(***************************************************************************)
\* The request of thread t passed the checks that precede the call of
\* scrape_script_given_name.
Admitted(d) ==
  /\ strip(d.movie_title) # << >>
  /\ strip(d.user_question) # << >>
  /\ llm # None
  /\ qa_chain # None

\* Thread t has received the record its call of scrape_script_given_name
\* returned.
Scraped(t) == pc[t] \in {"qa", "done"} /\ Admitted(data[t])

\* C1: once a thread u has stored a record under a cache key (its call of
\* scrape_script_given_name invoked the loader and has returned), every call
\* of another request that starts afterwards with the same key returns
\* exactly the record u stored and does not invoke the loader.
C1_LaterCallReturnsStoredRecord ==
  [][\A t, u \in Threads :
       ( /\ t # u
         /\ Scraped(u) /\ loader_calls[u] = 1
         /\ pc[t] = "idle" /\ pc'[t] # "idle"
         /\ Admitted(data'[t])
         /\ lower(strip(data'[t].movie_title)) = lower(strip(data[u].movie_title)) )
       => /\ loader_calls'[t] = 0
          /\ script_documents'[t] = script_documents[u]]_vars

\* C2: a key present in SCRIPT_CACHE is never removed and the record stored
\* under it never changes.
C2_CacheAppendOnly ==
  [][\A k \in DOMAIN SCRIPT_CACHE :
       k \in DOMAIN SCRIPT_CACHE' /\ SCRIPT_CACHE'[k] = SCRIPT_CACHE[k]]_vars

\* C3: the arguments of every qa_chain.run() call hold the cleaned script of
\* the request's title and the question text of that request.
C3_LlmInputHasScriptAndQuestion ==
  \A t \in Threads :
    pc[t] = "qa" =>
      /\ llm_input[t].input_documents = script_documents[t]
      /\ llm_input[t].question.type = "str"
      /\ IsSubstring(strip(data[t].user_question), llm_input[t].question.chars)


\* Length of the cleaned script the request of thread t received.
ScriptLen(t) == TextLen(script_documents[t].items[1].page_content)

\* C4: a request that received a script of length L < 500 (499 included)
\* has returned the placeholder message without any qa_chain.run() call; a
\* request that received a script of length L >= 500 (500 included) has
\* called qa_chain.run().
C4_ShortScriptBoundary ==
  \A t \in Threads :
    (Scraped(t) /\ Truthy(script_documents[t])) =>
      /\ ScriptLen(t) < 500 =>
           /\ pc[t] = "done"
           /\ response[t].status = 200
           /\ IsPrefix(<<"The script found for '">>, response[t].json.answer)
           /\ llm_calls[t] = 0
           /\ llm_input[t] = None
      /\ ScriptLen(t) >= 500 =>
           /\ llm_calls[t] = 1
           /\ llm_input[t] # None
           /\ llm_input[t].input_documents = script_documents[t]

\* Witness of C4: one request was rejected with a script of 499 characters
\* and another one reached the LLM stage with a script of 500 characters.
C4_Witness ==
  \E t, u \in Threads :
    /\ Scraped(t) /\ Truthy(script_documents[t]) /\ ScriptLen(t) = 499
    /\ pc[t] = "done" /\ llm_calls[t] = 0
    /\ Scraped(u) /\ Truthy(script_documents[u]) /\ ScriptLen(u) = 500
    /\ pc[u] = "qa" /\ llm_calls[u] = 1

\* The request body d has an empty title or an empty question once trimmed.
EmptyInput(d) == strip(d.movie_title) = << >> \/ strip(d.user_question) = << >>

\* C5: a request whose title or question is empty after trimming returns the
\* 400 error at once: the step that receives it ends the request, invokes
\* neither the loader nor the LLM and leaves SCRIPT_CACHE unchanged.
C5_InvalidInputNoSideEffects ==
  [][\A t \in Threads :
       (pc[t] = "idle" /\ pc'[t] # "idle" /\ EmptyInput(data'[t])) =>
         /\ pc'[t] = "done"
         /\ response'[t].status = 400
         /\ response'[t].json = [error |-> <<"Movie title and question are required.">>]
         /\ loader_calls'[t] = 0
         /\ llm_calls'[t] = 0
         /\ SCRIPT_CACHE' = SCRIPT_CACHE]_vars

\* Witness of C5: with a record in the cache, one request with an empty
\* title and one with an empty question have been rejected.
C5_Witness ==
  /\ SCRIPT_CACHE # << >>
  /\ \E t, u \in Threads :
       /\ pc[t] = "done" /\ strip(data[t].movie_title) = << >>
       /\ strip(data[t].user_question) # << >> /\ response[t].status = 400
       /\ pc[u] = "done" /\ strip(data[u].movie_title) # << >>
       /\ strip(data[u].user_question) = << >> /\ response[u].status = 400

\* The outcome of loader.load() is an exception, no data or empty content.
FetchFailed(out) ==
  out.raised \/ out.data = << >> \/ out.data[1].page_content = << >>

\* C6: when loader.load() raises or yields no data or empty content,
\* scrape_script_given_name does not raise: in that step it returns None to
\* the handler and stores None under the title's cache key.
C6_FetcherNeverPropagates ==
  [][\A t \in Threads :
       (pc[t] = "load" /\ pc'[t] # "load" /\ FetchFailed(loader_out'[t])) =>
         /\ pc'[t] # "raised"
         /\ script_documents'[t] = None
         /\ lower(strip(data[t].movie_title)) \in DOMAIN SCRIPT_CACHE'
         /\ SCRIPT_CACHE'[lower(strip(data[t].movie_title))] = None]_vars

\* Witness of C6: the loader raised for one request and returned empty
\* content for another, and None is cached.
C6_Witness ==
  \E t, u \in Threads :
    /\ pc[t] = "done" /\ loader_out[t] # None /\ loader_out[t].raised
    /\ pc[u] = "done" /\ loader_out[u] # None /\ ~loader_out[u].raised
    /\ loader_out[u].data # << >> /\ loader_out[u].data[1].page_content = << >>
    /\ script_documents[u] = None
    /\ SCRIPT_CACHE[lower(strip(data[u].movie_title))] = None

\* The request of thread t has ended with an exception raised by
\* qa_chain.run(): the call was made and gave no answer.
QaRaised(t) == pc[t] \in {"done", "raised"} /\ llm_calls[t] = 1 /\ answer[t] = None

\* C7: no request ends by a propagated exception; every finished request
\* has returned a status and a JSON object that is either the input error
\* or the echo of title and question with an answer; when qa_chain.run()
\* raised, the result carries the request's title and question, an error
\* message as answer and status 500.
C7_AlwaysStructuredResult ==
  \A t \in Threads :
    /\ pc[t] # "raised"
    /\ pc[t] = "done" =>
         /\ response[t] # None
         /\ response[t].status \in {200, 400, 500}
         /\ \/ DOMAIN response[t].json = {"error"}
            \/ /\ DOMAIN response[t].json = {"movie_title", "user_question", "answer"}
               /\ response[t].json.movie_title = strip(data[t].movie_title)
               /\ response[t].json.user_question = strip(data[t].user_question)
               /\ response[t].json.answer # << >>
    /\ QaRaised(t) =>
         /\ response[t] # None
         /\ response[t].status = 500
         /\ DOMAIN response[t].json = {"movie_title", "user_question", "answer"}
         /\ response[t].json.movie_title = strip(data[t].movie_title)
         /\ response[t].json.user_question = strip(data[t].user_question)
         /\ IsPrefix(<<"An error occurred while trying to answer your question using the script. Error: ">>,
                     response[t].json.answer)

\* Witness of C7: a request whose qa_chain.run() call raised has returned.
C7_Witness ==
  \E t \in Threads :
    /\ QaRaised(t) /\ pc[t] = "done"
    /\ response[t].status = 500
    /\ response[t].json.answer[2] = "TimeoutError"

\* C8: when llm or qa_chain is None after start-up, every request with a
\* non-empty title and question returns the fixed unavailable-service
\* message with its title and question, without any loader or LLM call, and
\* the cache stays as it was at start-up.
C8_ServiceNotConfigured ==
  (llm = None \/ qa_chain = None) =>
    /\ SCRIPT_CACHE = << >>
    /\ \A t \in Threads :
         (pc[t] # "idle" /\ ~EmptyInput(data[t])) =>
           /\ pc[t] = "done"
           /\ response[t] =
                [status |-> 500,
                 json |-> [movie_title |-> strip(data[t].movie_title),
                           user_question |-> strip(data[t].user_question),
                           answer |-> <<"Error: AI question answering service not available. Please check server logs.">>]]
           /\ loader_calls[t] = 0
           /\ llm_calls[t] = 0
           /\ llm_input[t] = None

\* Witness of C8: the client was built, the chain was not, and a request
\* with a title and a question has been answered.
C8_Witness ==
  /\ llm # None /\ qa_chain = None
  /\ \E t \in Threads :
       pc[t] = "done" /\ ~EmptyInput(data[t]) /\ response[t].status = 500

\* C9: a request whose qa_chain.run() call returned r has the result
\* {title: trimmed title, question: trimmed question, answer: r}, status 200.
C9_SuccessResult ==
  \A t \in Threads :
    (pc[t] = "done" /\ answer[t] # None) =>
      response[t] =
        [status |-> 200,
         json |-> [movie_title |-> strip(data[t].movie_title),
                   user_question |-> strip(data[t].user_question),
                   answer |-> answer[t].chars]]

\* Witness of C9: a request whose title and question needed trimming has been
\* answered by the LLM.
C9_Witness ==
  \E t \in Threads :
    /\ pc[t] = "done" /\ answer[t] = Str(<<"r2">>)
    /\ strip(data[t].movie_title) # data[t].movie_title
    /\ strip(data[t].user_question) # data[t].user_question
    /\ response[t].status = 200

\* C10: after a successful request the turn {question, answer} is the newest
\* entry of the conversation history of the title's key.
C10_TurnAppended ==
  \A t \in Threads :
    (pc[t] = "done" /\ answer[t] # None) =>
      LET h == ConversationHistory(lower(strip(data[t].movie_title)))
      IN /\ Len(h) >= 1
         /\ h[Len(h)] = [question |-> strip(data[t].user_question),
                         answer |-> answer[t].chars]

(***************************************************************************)
(* /suggest_movies.                                                        *)
(***************************************************************************)
\* Lines of movies.txt, stripped and non-empty: "TM", "t", "D".
MovieTitles == { <<"T", "M">>, <<"t">>, <<"D">> }

\* query arguments of the requests: "", "T", "m", "d ".
Queries == { << >>, <<"T">>, <<"m">>, <<"d", " ">> }

\* Number of suggestions returned at most.
SuggestLimit == 5

RECURSIVE SeqsUpTo(_, _)
\* The sequences of at most n elements of S.
SeqsUpTo(S, n) ==
  IF n = 0 THEN { << >> }
  ELSE LET shorter == SeqsUpTo(S, n - 1)
       IN shorter \cup { Append(q, x) : q \in shorter, x \in S }

\* Variant of Matches that does not lower-case the title.
Matches_CaseSensitive(search_term, movie) == IsSubstring(search_term, movie)

\* search_term in movie.lower()
Matches(search_term, movie) == IsSubstring(search_term, lower(movie))

RECURSIVE SuggestLoop(_, _, _, _)
\* for movie in MOVIE_LIST: ... with the locals suggestions and count.
SuggestLoop(movies, search_term, found, count) ==
  IF movies = << >> THEN found
  ELSE IF Matches(search_term, Head(movies))
    THEN IF count + 1 >= SuggestLimit
           THEN Append(found, Head(movies))
           ELSE SuggestLoop(Tail(movies), search_term,
                            Append(found, Head(movies)), count + 1)
  ELSE SuggestLoop(Tail(movies), search_term, found, count)

\* suggest_movies()
suggest_movies(q) ==
  LET search_term == lower(q)
  IN IF search_term # << >> /\ MOVIE_LIST # << >>
       THEN SuggestLoop(MOVIE_LIST, search_term, << >>, 0)
       ELSE << >>

\* A request arrives at /suggest_movies.
SuggestMovies(q) ==
  /\ query' = q
  /\ suggestions' = suggest_movies(q)
  /\ UNCHANGED <<MOVIE_LIST, appVars, historyVars, slugVars, scraperVars>>

\* The module has been imported: MOVIE_LIST holds the lines of movies.txt,
\* or nothing when the file could not be read.
InitSuggest ==
  /\ AppIdle
  /\ HistoryInit
  /\ SlugIdle
  /\ ScraperIdle
  /\ MOVIE_LIST \in SeqsUpTo(MovieTitles, MaxMovies)
  /\ query = << >>
  /\ suggestions = << >>

NextSuggest == \E q \in Queries : SuggestMovies(q)

SpecSuggest == InitSuggest /\ [][NextSuggest]_vars

(***************************************************************************)
(* Derivation of the script URL of a title.                                *)
(***************************************************************************)
\* The characters of the titles.
TitleChars == { " ", "|", "T", "m", "'", ":", ",", "!", "?" }

\* ask_movie_question trims the title and scrape_script_given_name builds
\* the url from it.
DeriveUrl ==
  /\ url = << >>
  /\ url' = ScriptUrl(movie_title([movie_title |-> raw_title]))
  /\ UNCHANGED <<raw_title, appVars, historyVars, suggestVars, scraperVars>>

InitSlug ==
  /\ AppIdle
  /\ HistoryInit
  /\ SuggestIdle
  /\ ScraperIdle
  /\ raw_title \in SeqsUpTo(TitleChars, MaxTitleLen)
  /\ url = << >>

NextSlug == DeriveUrl

SpecSlug == InitSlug /\ [][NextSlug]_vars

\* C11: the history of every (session, title key) holds at most 10
\* entries, and holds exactly the most recent min(n, 10) of the n entries
\* appended to it, in the order they were appended.
C11_HistoryBoundedFifo ==
  \A k \in HistoryKeys :
    LET n == Len(appended[k])
        m == IF n < 10 THEN n ELSE 10
    IN /\ Len(history[k]) <= 10
       /\ Len(history[k]) = m
       /\ \A i \in 1..m : history[k][i] = appended[k][n - m + i]

\* Witness of C11: 12 entries were appended to an empty history, with
\* an evicted entry that differs from the oldest entry kept.
C11_Witness ==
  \E k \in HistoryKeys :
    /\ Len(appended[k]) = 12
    /\ Len(history[k]) = 10
    /\ appended[k][1] # appended[k][3]
    /\ history[k][1] = appended[k][3]
    /\ history[k][10] = appended[k][12]

\* The titles of MOVIE_LIST whose lower-cased form contains the lower-cased
\* query, in list order.
Matching ==
  LET Contains(movie) == IsSubstring(lower(query), lower(movie))
  IN SelectSeq(MOVIE_LIST, Contains)

\* C12: the suggestions are the first min(5, m) of the m titles of the list
\* that contain the query case-insensitively, in list order; they are empty
\* for an empty query or an empty list; they are never more than 5 and
\* always titles of the list.
C12_SuggestFirstFive ==
  /\ (query = << >> \/ MOVIE_LIST = << >>) => suggestions = << >>
  /\ query # << >> =>
       LET m == Len(Matching)
           n == IF m < 5 THEN m ELSE 5
       IN suggestions = SubSeq(Matching, 1, n)
  /\ Len(suggestions) <= 5
  /\ \A i \in DOMAIN suggestions :
       \E j \in DOMAIN MOVIE_LIST : MOVIE_LIST[j] = suggestions[i]

\* Witness of C12: six titles match, among them two different ones that
\* differ from the query in case, and five are returned.
C12_Witness ==
  /\ query = <<"T">>
  /\ Len(Matching) = 6
  /\ Len(suggestions) = 5
  /\ suggestions[1] = <<"t">>
  /\ suggestions[2] = <<"T", "M">>

\* s without its leading and trailing spaces.
Trimmed(s) ==
  LET inside == { i \in DOMAIN s : s[i] # " " }
  IN IF inside = { } THEN << >>
     ELSE SubSeq(s, CHOOSE i \in inside : \A j \in inside : i <= j,
                    CHOOSE i \in inside : \A j \in inside : i >= j)

\* s up to its first '|', the whole of s when it has none.
BeforeBar(s) ==
  LET bars == { i \in DOMAIN s : s[i] = "|" }
  IN IF bars = { } THEN s
     ELSE SubSeq(s, 1, (CHOOSE i \in bars : \A j \in bars : i <= j) - 1)

\* The slug of a raw title: trim, keep the part before the first '|', trim,
\* put '-' for each space, drop the characters ' : , ! ?
SlugOf(title) ==
  LET core == Trimmed(BeforeBar(Trimmed(title)))
      hyphenated == [i \in DOMAIN core |-> IF core[i] = " " THEN "-" ELSE core[i]]
      Kept(c) == c \notin { "'", ":", ",", "!", "?" }
  IN SelectSeq(hyphenated, Kept)

\* C13: the url built for a raw title is <archive-base>/scripts/<slug>.html
\* where the slug is the title trimmed, cut before its first '|', trimmed,
\* with '-' for each space and without the characters ' : , ! ?; the slug
\* has no space, no '|' and none of these characters, and every other
\* character of it is a character of the title, in its case.
C13_SlugOfTitle ==
  url # << >> =>
    /\ url = <<"https://imsdb.com/scripts/">> \o SlugOf(raw_title) \o <<".html">>
    /\ LET slug == SubSeq(url, 2, Len(url) - 1)
       IN \A i \in DOMAIN slug :
            /\ slug[i] \notin { " ", "|", "'", ":", ",", "!", "?" }
            /\ slug[i] = "-" \/ \E j \in DOMAIN raw_title : raw_title[j] = slug[i]

\* Witness of C13: "T ?|" gives the slug "T-".
C13_Witness ==
  /\ raw_title = <<"T", " ", "?", "|">>
  /\ url = <<"https://imsdb.com/scripts/", "T", "-", ".html">>

\* C14: a request invokes the loader at most once and the LLM at most once;
\* the step in which its fetch fails, and the step in which its LLM call
\* fails, end the request with the failure result, without a second call.
C14_NoRetries ==
  /\ [](\A t \in Threads : loader_calls[t] <= 1 /\ llm_calls[t] <= 1)
  /\ [][\A t \in Threads :
          /\ (pc[t] = "load" /\ pc'[t] # "load" /\ FetchFailed(loader_out'[t])) =>
               /\ pc'[t] = "done"
               /\ response'[t].status = 200
               /\ IsPrefix(<<"Could not find or scrape the script for '">>,
                           response'[t].json.answer)
               /\ loader_calls'[t] = 1
               /\ llm_calls'[t] = 0
          /\ (pc[t] = "qa" /\ pc'[t] # "qa" /\ answer'[t] = None) =>
               /\ pc'[t] = "done"
               /\ response'[t].status = 500
               /\ loader_calls'[t] = loader_calls[t]
               /\ llm_calls'[t] = 1]_vars

\* Witness of C14: one request has ended after its only fetch failed and
\* another after its only LLM call failed.
C14_Witness ==
  \E t, u \in Threads :
    /\ pc[t] = "done" /\ loader_out[t] # None /\ FetchFailed(loader_out[t])
    /\ loader_calls[t] = 1 /\ llm_calls[t] = 0
    /\ pc[u] = "done" /\ QaRaised(u) /\ llm_calls[u] = 1
    /\ response[u].status = 500

\* C15: nothing makes a request wait for, or share, the fetch of another
\* request: a request that starts while its key is not cached invokes the
\* loader even when the load() call of another request for the same key is
\* in flight, and leaves that call in flight.
C15_NoSingleFlight ==
  [][\A t, u \in Threads :
       ( /\ t # u
         /\ pc[u] = "load"
         /\ pc[t] = "idle" /\ pc'[t] # "idle"
         /\ Admitted(data'[t])
         /\ lower(strip(data'[t].movie_title)) = lower(strip(data[u].movie_title))
         /\ lower(strip(data'[t].movie_title)) \notin DOMAIN SCRIPT_CACHE )
       => /\ pc'[t] = "load"
          /\ loader_calls'[t] = 1
          /\ loader'[t] # None
          /\ pc'[u] = "load"]_vars

\* Witness of C15: two requests for the same title have both invoked the
\* loader and have both returned a result.
C15_Witness ==
  \E t, u \in Threads :
    /\ t # u
    /\ pc[t] = "done" /\ pc[u] = "done"
    /\ data[t].movie_title = data[u].movie_title
    /\ loader_calls[t] = 1 /\ loader_calls[u] = 1
    /\ response[t] # None /\ response[u] # None
    /\ response[t].status = 200 /\ response[u].status = 200

\* C16: the loader is never invoked with an empty slug: a request whose
\* title has an empty slug makes no loader call, and no load() call in
\* flight has the url <archive-base>/scripts/.html.
C16_NoEmptySlugFetch ==
  \A t \in Threads :
    /\ (data[t] # None /\ SlugOf(data[t].movie_title) = << >>) =>
         (loader_calls[t] = 0 /\ pc[t] # "load")
    /\ pc[t] = "load" =>
         loader[t].web_path # <<"https://imsdb.com/scripts/", ".html">>

\* C17: cache key and fetch url agree: the record a request receives for
\* its title, from the cache or from its own fetch, is the outcome of a
\* fetch of the url derived from that same title.
C17_KeyAndUrlConsistent ==
  \A t \in Threads :
    (Scraped(t) /\ Truthy(script_documents[t])) =>
      SlugOf(script_documents[t].items[1].metadata.source)
        = SlugOf(data[t].movie_title)

\* The response is the upstream-failure result or the placeholder-script
\* message.
FailureAfterFetch(r) ==
  /\ r # None
  /\ DOMAIN r.json = {"movie_title", "user_question", "answer"}
  /\ \/ IsPrefix(<<"An error occurred while trying to answer your question using the script. Error: ">>,
                 r.json.answer)
     \/ IsPrefix(<<"The script found for '">>, r.json.answer)

Tuple(items) == [type |-> "tuple", items |-> items]

\* A <p> element of the page: its first <a> and <i> elements, if any, and
\* their texts.
Paragraphs ==
  { p \in [has_a : BOOLEAN, a_text : { << >>, <<" ", "A">> },
           has_i : BOOLEAN, i_text : { << >>, <<"D", " ">> }] :
      /\ ~p.has_a => p.a_text = << >>
      /\ p.has_i <=> p.i_text # << >> }

\* Outcomes of the try block: requests.get or raise_for_status raises, the
\* parsing raises, or the page is parsed into its <p> elements.
Pages ==
  { [raised |-> TRUE, error |-> e, paragraphs |-> << >>] :
      e \in {"RequestException", "Exception"} }
  \cup { [raised |-> FALSE, error |-> "", paragraphs |-> ps] :
           ps \in SeqsUpTo(Paragraphs, MaxParagraphs) }

\* Number of titles printed by the main routine.
PrintLimit == 20

\* The loop over the <p> elements: the lists movie_titles, directors and
\* movies_and_directors after the elements ps.
RECURSIVE ScrapeLoop(_)
ScrapeLoop(ps) ==
  IF ps = << >>
  THEN [movie_titles |-> << >>, directors |-> << >>,
        movies_and_directors |-> << >>]
  ELSE LET before == ScrapeLoop(SubSeq(ps, 1, Len(ps) - 1))
           movie == ps[Len(ps)]
           title == IF movie.has_i THEN strip(movie.a_text) ELSE <<"Unknown">>
           director == IF movie.has_i THEN strip(movie.i_text) ELSE <<"Unknown">>
           titles == Append(before.movie_titles, title)
           dirs == Append(before.directors, director)
       IN IF movie.has_a /\ movie.a_text # << >>
          THEN [movie_titles |-> titles, directors |-> dirs,
                movies_and_directors |->
                  [n \in 1..Len(titles) |-> <<titles[n], dirs[n]>>]]
          ELSE before

\* The value returned by scrape_imsdb_titles() for an outcome of its try
\* block.
scrape_imsdb_titles(pg) ==
  IF pg.raised THEN List(<< >>)
  ELSE LET lists == ScrapeLoop(pg.paragraphs)
       IN Tuple(<<List(lists.movie_titles), List(lists.directors),
                  List(lists.movies_and_directors)>>)

\* What scrape_imsdb_titles() prints for an outcome of its try block.
ScrapePrints(pg) ==
  IF ~pg.raised THEN << >>
  ELSE IF pg.error = "RequestException"
       THEN << <<"Error fetching the URL: ", pg.error>> >>
       ELSE << <<"An error occurred during parsing: ", pg.error>> >>

CouldNotRetrieve == <<"Could not retrieve movie titles.">>

\* The lines printed by the main routine for a non-empty list of titles.
SuccessPrints(titles) ==
  LET shown == IF Len(titles) > PrintLimit THEN PrintLimit ELSE Len(titles)
  IN << <<"Successfully scraped ", ToString(Len(titles)), " movie titles:">> >>
     \o [n \in 1..shown |-> <<ToString(n), ". ">> \o titles[n]]
     \o (IF Len(titles) > PrintLimit THEN << <<"...">> >> ELSE << >>)

\* The call scrape_imsdb_titles() of the main routine.
CallScrape ==
  /\ main_pc = "start"
  /\ returned' = scrape_imsdb_titles(page)
  /\ printed' = printed \o ScrapePrints(page)
  /\ main_pc' = "called"
  /\ UNCHANGED <<page, main_locals, written>>
  /\ UNCHANGED <<appVars, historyVars, suggestVars, slugVars>>

\* titles, directors, movies_and_directors = <returned value>: raises
\* ValueError unless the value holds exactly three items.
Unpack ==
  /\ main_pc = "called"
  /\ IF Len(returned.items) = 3
     THEN /\ main_locals' = [titles |-> returned.items[1],
                             directors |-> returned.items[2],
                             movies_and_directors |-> returned.items[3]]
          /\ main_pc' = "unpacked"
     ELSE /\ main_locals' = main_locals
          /\ main_pc' = "raised"
  /\ UNCHANGED <<page, returned, printed, written>>
  /\ UNCHANGED <<appVars, historyVars, suggestVars, slugVars>>

\* if titles: ... else: print("Could not retrieve movie titles.")
Report ==
  /\ main_pc = "unpacked"
  /\ printed' = IF Truthy(main_locals.titles)
                THEN printed \o SuccessPrints(main_locals.titles.items)
                ELSE Append(printed, CouldNotRetrieve)
  /\ main_pc' = "reported"
  /\ UNCHANGED <<page, returned, main_locals, written>>
  /\ UNCHANGED <<appVars, historyVars, suggestVars, slugVars>>

\* The lines written to movie_titles_and_directors.txt.
WriteFile ==
  /\ main_pc = "reported"
  /\ written' = [n \in 1..Len(main_locals.movies_and_directors.items) |->
                   main_locals.movies_and_directors.items[n][1] \o <<" | ">>
                     \o main_locals.movies_and_directors.items[n][2] \o <<"\n">>]
  /\ main_pc' = "finished"
  /\ UNCHANGED <<page, returned, main_locals, printed>>
  /\ UNCHANGED <<appVars, historyVars, suggestVars, slugVars>>

InitScraper ==
  /\ AppIdle
  /\ HistoryInit
  /\ SuggestIdle
  /\ SlugIdle
  /\ main_pc = "start"
  /\ page \in Pages
  /\ returned = None
  /\ main_locals = None
  /\ printed = << >>
  /\ written = << >>

NextScraper ==
  \/ CallScrape
  \/ Unpack
  \/ Report
  \/ WriteFile

SpecScraper == InitScraper /\ [][NextScraper]_vars

\* C19: when fetching or parsing the all-scripts page fails,
\* scrape_imsdb_titles returns an empty list, the main routine does not
\* raise, and once it has reported it has printed that the titles could
\* not be retrieved.
C19_ScraperFailureHandled ==
  (main_pc \notin {"off", "start"} /\ page.raised) =>
    /\ returned = List(<< >>)
    /\ main_pc # "raised"
    /\ main_pc \in {"reported", "finished"} =>
         \E n \in 1..Len(printed) : printed[n] = CouldNotRetrieve

====
